---- MODULE Spec2Model ----
(***************************************************************************)
(* ResponseParser of evalscope/utils/utils.py: the answer-extraction       *)
(* operations parse_first_capital, parse_last_capital, parse_first_option, *)
(* parse_bracketed_answer and process_options.                             *)
(*                                                                         *)
(* A Python string is a sequence of characters.  A character is a string   *)
(* of length one ("A", "|", " "), or, for the CJK characters of the rule   *)
(* table, its code point ("U+7B54" is the character 答).  A regular        *)
(* expression is a sequence of items (a character set with a quantifier,   *)
(* the two ends of capture group 1, an anchor, an alternation of literals, *)
(* sets and anchors); Search is the backtracking search of re.search.      *)
(***************************************************************************)
EXTENDS Integers, Sequences, FiniteSets, TLC

VARIABLES text, options, op, result

vars == <<text, options, op, result>>

-----------------------------------------------------------------------------
(* Characters *)

\* str.isupper() of a one-character string
UpperCase ==
    {"A", "B", "C", "D", "E", "F", "G", "H", "I", "J", "K", "L", "M",
     "N", "O", "P", "Q", "R", "S", "T", "U", "V", "W", "X", "Y", "Z"}

\* the lower-case letter of an upper-case one
LowerOf ==
    [c \in UpperCase |->
        CASE c = "A" -> "a" [] c = "B" -> "b" [] c = "C" -> "c" [] c = "D" -> "d"
          [] c = "E" -> "e" [] c = "F" -> "f" [] c = "G" -> "g" [] c = "H" -> "h"
          [] c = "I" -> "i" [] c = "J" -> "j" [] c = "K" -> "k" [] c = "L" -> "l"
          [] c = "M" -> "m" [] c = "N" -> "n" [] c = "O" -> "o" [] c = "P" -> "p"
          [] c = "Q" -> "q" [] c = "R" -> "r" [] c = "S" -> "s" [] c = "T" -> "t"
          [] c = "U" -> "u" [] c = "V" -> "v" [] c = "W" -> "w" [] c = "X" -> "x"
          [] c = "Y" -> "y" [] c = "Z" -> "z"]

LowerCase == {LowerOf[c] : c \in UpperCase}

isupper(t) == t \in UpperCase

\* the characters str.strip() removes and \s matches
Whitespace == {" ", "\t", "\n", "\r", "\f"}

\* the characters re.escape() puts a backslash before
SpecialChars ==
    {"(", ")", "[", "]", "{", "}", "?", "*", "+", "-", "|", "^", "$", "\\",
     ".", "&", "~", "#", " ", "\t", "\n", "\r", "\f"}

\* CJK characters of the rule table
zh_da == "U+7B54"      \* 答
zh_an == "U+6848"      \* 案
zh_shi == "U+662F"     \* 是
zh_xuan == "U+9009"    \* 选
zh_xiang == "U+9879"   \* 项
zh_ying == "U+5E94"    \* 应
zh_gai == "U+8BE5"     \* 该
zh_wei == "U+4E3A"     \* 为
zh_ze == "U+62E9"      \* 择
zh_gu == "U+6545"      \* 故
zh_zhi == "U+53EA"     \* 只
zh_you == "U+6709"     \* 有
zh_dui == "U+5BF9"     \* 对
zh_cuo == "U+9519"     \* 错
zh_bu == "U+4E0D"      \* 不
zh_zheng == "U+6B63"   \* 正
zh_que == "U+786E"     \* 确
zh_wu == "U+8BEF"      \* 误
zh_shuo == "U+8BF4"    \* 说
zh_fa == "U+6CD5"      \* 法
zh_de == "U+7684"      \* 的
zh_suo == "U+6240"     \* 所
zh_yi == "U+4EE5"      \* 以
zh_ji == "U+5373"      \* 即
zh_yin == "U+56E0"     \* 因
zh_ci == "U+6B64"      \* 此
zh_xian == "U+663E"    \* 显
zh_ran == "U+7136"     \* 然
zh_colon == "U+FF1A"   \* ：
zh_comma == "U+FF0C"   \* ，
zh_stop == "U+3002"    \* 。

-----------------------------------------------------------------------------
(* Strings *)

Range(s) == {s[k] : k \in 1..Len(s)}

\* a in b, for strings a and b
Contains(b, a) ==
    \E p \in 0..(Len(b) - Len(a)) : SubSeq(b, p + 1, p + Len(a)) = a

\* str.strip()
RECURSIVE lstrip(_)
lstrip(s) ==
    IF s # <<>> /\ Head(s) \in Whitespace THEN lstrip(Tail(s)) ELSE s

RECURSIVE rstrip(_)
rstrip(s) ==
    IF s # <<>> /\ s[Len(s)] \in Whitespace
    THEN rstrip(SubSeq(s, 1, Len(s) - 1))
    ELSE s

strip(s) == rstrip(lstrip(s))

\* re.escape(option)
RECURSIVE escape(_)
escape(s) ==
    IF s = <<>> THEN <<>>
    ELSE (IF Head(s) \in SpecialChars THEN <<"\\", Head(s)>> ELSE <<Head(s)>>)
         \o escape(Tail(s))

\* '|'.join(parts)
RECURSIVE join(_)
join(parts) ==
    IF parts = <<>> THEN <<>>
    ELSE IF Len(parts) = 1 THEN parts[1]
    ELSE parts[1] \o <<"|">> \o join(Tail(parts))

\* ResponseParser.process_options
process_options(opts) ==
    join([k \in 1..Len(opts) |-> escape(opts[k])])

-----------------------------------------------------------------------------
(* Regular expressions *)

\* items of a pattern; q is the quantifier: "1", "?", "*", "+" or the lazy "*?"
Set(cs, q) == <<[t |-> "set", cs |-> cs, neg |-> FALSE, q |-> q]>>
NotSet(cs, q) == <<[t |-> "set", cs |-> cs, neg |-> TRUE, q |-> q]>>
Chr(c) == Set({c}, "1")
Opt(c) == Set({c}, "?")
Lit(s) == [k \in 1..Len(s) |-> [t |-> "set", cs |-> {s[k]}, neg |-> FALSE, q |-> "1"]]
Space(q) == Set(Whitespace, q)             \* \s
NonSpace(q) == NotSet(Whitespace, q)       \* \S
Dot(q) == NotSet({}, q)                    \* . under re.DOTALL
Bol == <<[t |-> "bol"]>>                   \* ^
Eol == <<[t |-> "eol"]>>                   \* $
Group1(items) == <<[t |-> "open"]>> \o items \o <<[t |-> "close"]>>
Alt(alts) == <<[t |-> "alt", alts |-> alts]>>
BadSet == <<[t |-> "error"]>>              \* a character set that does not compile

\* the characters of the set [body]: a backslash makes the next character literal
RECURSIVE ClassChars(_)
ClassChars(body) ==
    IF body = <<>> THEN {}
    ELSE IF Head(body) = "\\" /\ Len(body) >= 2
         THEN {body[2]} \cup ClassChars(Tail(Tail(body)))
         ELSE {Head(body)} \cup ClassChars(Tail(body))

\* [{options_concat}]: with an empty body the "]" is taken as a member and the
\* set is unterminated (the first pattern of the list has no other "]", so the
\* first search of the loop raises)
OptionClass(oc) ==
    IF oc = <<>> THEN BadSet ELSE Set(ClassChars(oc), "1")

\* the alternatives of {options} outside a set: split at each unescaped "|",
\* an escaped character standing for itself
RECURSIVE Alternatives(_, _)
Alternatives(oc, cur) ==
    IF oc = <<>> THEN <<cur>>
    ELSE IF Head(oc) = "\\" /\ Len(oc) >= 2
         THEN Alternatives(Tail(Tail(oc)), Append(cur, oc[2]))
         ELSE IF Head(oc) = "|"
              THEN <<cur>> \o Alternatives(Tail(oc), <<>>)
              ELSE Alternatives(Tail(oc), Append(cur, Head(oc)))

OptionAlt(oc) ==
    LET alts == Alternatives(oc, <<>>)
    IN  Alt([k \in 1..Len(alts) |-> [t |-> "lit", s |-> alts[k]]])

\* (?i): every letter of a set also matches in the other case
SwapCase(cs) ==
    {LowerOf[c] : c \in cs \cap UpperCase}
        \cup {u \in UpperCase : LowerOf[u] \in cs}

IgnoreCase(items) ==
    [k \in 1..Len(items) |->
        IF items[k].t = "set"
        THEN [items[k] EXCEPT !.cs = @ \cup SwapCase(@)]
        ELSE items[k]]

InSet(c, it) == (c \in it.cs) # it.neg

\* $ without re.MULTILINE: the end of the string, or just before a final newline
AtEnd(txt, i) ==
    \/ i = Len(txt) + 1
    \/ i = Len(txt) /\ txt[i] = "\n"

NoMatch == [ok |-> FALSE]

\* how far alternative a reaches from position i; 0 when it does not match
AltEnd(a, txt, i) ==
    CASE a.t = "lit" ->
            IF i + Len(a.s) - 1 <= Len(txt) /\ SubSeq(txt, i, i + Len(a.s) - 1) = a.s
            THEN i + Len(a.s) ELSE 0
      [] a.t = "set" -> IF i <= Len(txt) /\ InSet(txt[i], a) THEN i + 1 ELSE 0
      [] a.t = "bol" -> IF i = 1 THEN i ELSE 0
      [] a.t = "eol" -> IF AtEnd(txt, i) THEN i ELSE 0

\* the backtracking matcher: items k.. of re against txt from position i, the
\* current item already repeated (or its alternatives tried) n times, group 1
\* spanning g[1]..g[2]-1.  The first way to match in the engine's order wins:
\* a greedy item takes one more before it gives up, a lazy one the reverse.
RECURSIVE Match(_, _, _, _, _, _)
Match(re, txt, k, i, n, g) ==
    IF k > Len(re) THEN [ok |-> TRUE, e |-> i, g |-> g]
    ELSE LET it == re[k] IN
      CASE it.t = "open" -> Match(re, txt, k + 1, i, 0, <<i, g[2]>>)
        [] it.t = "close" -> Match(re, txt, k + 1, i, 0, <<g[1], i>>)
        [] it.t = "bol" -> IF i = 1 THEN Match(re, txt, k + 1, i, 0, g) ELSE NoMatch
        [] it.t = "eol" ->
             IF AtEnd(txt, i) THEN Match(re, txt, k + 1, i, 0, g) ELSE NoMatch
        [] it.t = "alt" ->
             IF n >= Len(it.alts) THEN NoMatch
             ELSE LET e == AltEnd(it.alts[n + 1], txt, i)
                      r == IF e = 0 THEN NoMatch ELSE Match(re, txt, k + 1, e, 0, g)
                  IN  IF r.ok THEN r ELSE Match(re, txt, k, i, n + 1, g)
        [] it.t = "set" ->
             LET enough == n >= (IF it.q \in {"1", "+"} THEN 1 ELSE 0)
                 can == /\ (it.q \in {"1", "?"} => n < 1)
                        /\ i <= Len(txt)
                        /\ InSet(txt[i], it)
                 more == IF can THEN Match(re, txt, k, i + 1, n + 1, g) ELSE NoMatch
                 skip == IF enough THEN Match(re, txt, k + 1, i, 0, g) ELSE NoMatch
             IN  IF it.q = "*?"
                 THEN (IF skip.ok THEN skip ELSE more)
                 ELSE (IF more.ok THEN more ELSE skip)

\* a pattern whose compilation raises re.error
Invalid(re) == \E k \in 1..Len(re) : re[k].t = "error"

\* re.search: the match at the leftmost start; s is the start being tried
RECURSIVE SearchFrom(_, _, _)
SearchFrom(re, txt, s) ==
    IF s > Len(txt) + 1 THEN NoMatch
    ELSE LET r == Match(re, txt, 1, s, 0, <<0, 0>>)
         IN  IF r.ok THEN [ok |-> TRUE, s |-> s, e |-> r.e, g |-> r.g]
             ELSE SearchFrom(re, txt, s + 1)

Search(re, txt) == SearchFrom(re, txt, 1)

\* match.group(0) and match.group(1)
group0(m, txt) == SubSeq(txt, m.s, m.e - 1)
group1(m, txt) == SubSeq(txt, m.g[1], m.g[2] - 1)

-----------------------------------------------------------------------------
(* The rule table of parse_first_option *)

\* ([{options_concat}])
G(oc) == Group1(OptionClass(oc))

he_answer_is == <<"h", "e", " ", "a", "n", "s", "w", "e", "r", " ", "i", "s">>
he_correct_answer_is == <<"h", "e", " ", "c", "o", "r", "r", "e", "c", "t", " ", "a", "n", "s", "w", "e", "r", " ", "i", "s">>
he_correct_option_is == <<"h", "e", " ", "c", "o", "r", "r", "e", "c", "t", " ", "o", "p", "t", "i", "o", "n", " ", "i", "s">>
he_correct_answer_option_is == <<"h", "e", " ", "c", "o", "r", "r", "e", "c", "t", " ", "a", "n", "s", "w", "e", "r", " ", "o", "p", "t", "i", "o", "n", " ", "i", "s">>
he_answer_to_the_question_is == <<"h", "e", " ", "a", "n", "s", "w", "e", "r", " ", "t", "o", " ", "t", "h", "e", " ", "q", "u", "e", "s", "t", "i", "o", "n", " ", "i", "s">>
option_word == <<" ", "o", "p", "t", "i", "o", "n">>
boxed == <<"b", "o", "x", "e", "d", "{">>
ANSWER == <<"A", "N", "S", "W", "E", "R">>

\* [Tt]
Tt == Set({"T", "t"}, "1")

\* (?:。|$)
StopOrEnd == Alt(<<[t |-> "set", cs |-> {zh_stop}, neg |-> FALSE], [t |-> "eol"]>>)

\* 只有选?项?\s?
zhiyou == Lit(<<zh_zhi, zh_you>>) \o Opt(zh_xuan) \o Opt(zh_xiang) \o Space("?")

\* 选?项?的?是\s?
xuanxiang_de_shi == Opt(zh_xuan) \o Opt(zh_xiang) \o Opt(zh_de) \o Chr(zh_shi) \o Space("?")

\* [。\.]?$
StopEnd == Set({zh_stop, "."}, "?") \o Eol

\* :?\s+\(?
ColonSpaceParen == Opt(":") \o Space("+") \o Opt("(")

\* the list `patterns`, in the order of the source; the string of line 200 has
\* no comma after it and is one pattern with the string of line 201
patterns(oc) == <<
    \* 答案是?\s*([..])
    Lit(<<zh_da, zh_an>>) \o Opt(zh_shi) \o Space("*") \o G(oc),
    \* 答案是?\s*：\s*([..])
    Lit(<<zh_da, zh_an>>) \o Opt(zh_shi) \o Space("*") \o Chr(zh_colon) \o Space("*") \o G(oc),
    \* 答案是?\s*:\s*([..])
    Lit(<<zh_da, zh_an>>) \o Opt(zh_shi) \o Space("*") \o Chr(":") \o Space("*") \o G(oc),
    \* 答案选项应?该?是\s*([..])
    Lit(<<zh_da, zh_an, zh_xuan, zh_xiang>>) \o Opt(zh_ying) \o Opt(zh_gai) \o Chr(zh_shi)
        \o Space("*") \o G(oc),
    \* 答案选项应?该?为\s*([..])
    Lit(<<zh_da, zh_an, zh_xuan, zh_xiang>>) \o Opt(zh_ying) \o Opt(zh_gai) \o Chr(zh_wei)
        \o Space("*") \o G(oc),
    \* 答案应该?是\s*([..])
    Lit(<<zh_da, zh_an, zh_ying>>) \o Opt(zh_gai) \o Chr(zh_shi) \o Space("*") \o G(oc),
    \* 答案应该?选\s*([..])
    Lit(<<zh_da, zh_an, zh_ying>>) \o Opt(zh_gai) \o Chr(zh_xuan) \o Space("*") \o G(oc),
    \* 答案选项为?\s*：\s*([..])
    Lit(<<zh_da, zh_an, zh_xuan, zh_xiang>>) \o Opt(zh_wei) \o Space("*") \o Chr(zh_colon)
        \o Space("*") \o G(oc),
    \* 答案选项为?\s+\(?\*?\*?([..])\*?\*?\)?
    Lit(<<zh_da, zh_an, zh_xuan, zh_xiang>>) \o Opt(zh_wei) \o Space("+") \o Opt("(")
        \o Opt("*") \o Opt("*") \o G(oc) \o Opt("*") \o Opt("*") \o Opt(")"),
    \* 答案选项是?\s*:\s*([..])
    Lit(<<zh_da, zh_an, zh_xuan, zh_xiang>>) \o Opt(zh_shi) \o Space("*") \o Chr(":")
        \o Space("*") \o G(oc),
    \* 答案为\s*([..])
    Lit(<<zh_da, zh_an, zh_wei>>) \o Space("*") \o G(oc),
    \* 答案选\s*([..])
    Lit(<<zh_da, zh_an, zh_xuan>>) \o Space("*") \o G(oc),
    \* 选择?\s*([..])
    Chr(zh_xuan) \o Opt(zh_ze) \o Space("*") \o G(oc),
    \* 故选?\s*([..])只有选?项?\s?([..])\s?是?对
    Chr(zh_gu) \o Opt(zh_xuan) \o Space("*") \o G(oc)
        \o zhiyou \o OptionClass(oc) \o Space("?") \o Opt(zh_shi) \o Chr(zh_dui),
    \* 只有选?项?\s?([..])\s?是?错
    zhiyou \o G(oc) \o Space("?") \o Opt(zh_shi) \o Chr(zh_cuo),
    \* 只有选?项?\s?([..])\s?不?正确
    zhiyou \o G(oc) \o Space("?") \o Opt(zh_bu) \o Lit(<<zh_zheng, zh_que>>),
    \* 只有选?项?\s?([..])\s?错误
    zhiyou \o G(oc) \o Space("?") \o Lit(<<zh_cuo, zh_wu>>),
    \* 说法不?对选?项?的?是\s?([..])
    Lit(<<zh_shuo, zh_fa>>) \o Opt(zh_bu) \o Chr(zh_dui) \o xuanxiang_de_shi \o G(oc),
    \* 说法不?正确选?项?的?是\s?([..])
    Lit(<<zh_shuo, zh_fa>>) \o Opt(zh_bu) \o Lit(<<zh_zheng, zh_que>>) \o xuanxiang_de_shi
        \o G(oc),
    \* 说法错误选?项?的?是\s?([..])
    Lit(<<zh_shuo, zh_fa, zh_cuo, zh_wu>>) \o xuanxiang_de_shi \o G(oc),
    \* ([..])\s?是正确的
    G(oc) \o Space("?") \o Lit(<<zh_shi, zh_zheng, zh_que, zh_de>>),
    \* ([..])\s?是正确答案
    G(oc) \o Space("?") \o Lit(<<zh_shi, zh_zheng, zh_que, zh_da, zh_an>>),
    \* 选项\s?([..])\s?正确
    Lit(<<zh_xuan, zh_xiang>>) \o Space("?") \o G(oc) \o Space("?") \o Lit(<<zh_zheng, zh_que>>),
    \* 所以答\s?([..])
    Lit(<<zh_suo, zh_yi, zh_da>>) \o Space("?") \o G(oc),
    \* 所以\s?([..][.。$]?$)
    Lit(<<zh_suo, zh_yi>>) \o Space("?")
        \o Group1(OptionClass(oc) \o Set({".", zh_stop, "$"}, "?") \o Eol),
    \* 所有\s?([..][.。$]?$)
    Lit(<<zh_suo, zh_you>>) \o Space("?")
        \o Group1(OptionClass(oc) \o Set({".", zh_stop, "$"}, "?") \o Eol),
    \* [\s，：:,]([..])[。，,\.]?$
    Set(Whitespace \cup {zh_comma, zh_colon, ":", ","}, "1") \o G(oc)
        \o Set({zh_stop, zh_comma, ",", "."}, "?") \o Eol,
    \* [\s，,：:][故即]([..])[。\.]?$
    Set(Whitespace \cup {zh_comma, ",", zh_colon, ":"}, "1") \o Set({zh_gu, zh_ji}, "1")
        \o G(oc) \o StopEnd,
    \* [\s，,：:]因此([..])[。\.]?$
    Set(Whitespace \cup {zh_comma, ",", zh_colon, ":"}, "1") \o Lit(<<zh_yin, zh_ci>>)
        \o G(oc) \o StopEnd,
    \* [是为。]\s?([..])[。\.]?$
    Set({zh_shi, zh_wei, zh_stop}, "1") \o Space("?") \o G(oc) \o StopEnd,
    \* 因此\s?([..])[。\.]?$
    Lit(<<zh_yin, zh_ci>>) \o Space("?") \o G(oc) \o StopEnd,
    \* 显然\s?([..])[。\.]?$
    Lit(<<zh_xian, zh_ran>>) \o Space("?") \o G(oc) \o StopEnd,
    \* 答案是\s?(\S+)(?:。|$)
    Lit(<<zh_da, zh_an, zh_shi>>) \o Space("?") \o Group1(NonSpace("+")) \o StopOrEnd,
    \* 答案应该是\s?(\S+)(?:。|$)
    Lit(<<zh_da, zh_an, zh_ying, zh_gai, zh_shi>>) \o Space("?") \o Group1(NonSpace("+"))
        \o StopOrEnd,
    \* 答案为\s?(\S+)(?:。|$)
    Lit(<<zh_da, zh_an, zh_wei>>) \o Space("?") \o Group1(NonSpace("+")) \o StopOrEnd,
    \* (?i)ANSWER\s*:\s*([..])
    IgnoreCase(Lit(ANSWER) \o Space("*") \o Chr(":") \o Space("*") \o G(oc)),
    \* [Tt]he answer is:?\s+\(?([..])\)?
    Tt \o Lit(he_answer_is) \o ColonSpaceParen \o G(oc) \o Opt(")"),
    \* [Tt]he answer is:?\s+\(?\*?\*?([..])\*?\*?\)?
    Tt \o Lit(he_answer_is) \o ColonSpaceParen \o Opt("*") \o Opt("*") \o G(oc)
        \o Opt("*") \o Opt("*") \o Opt(")"),
    \* [Tt]he answer is option:?\s+\(?([..])\)?
    Tt \o Lit(he_answer_is) \o Lit(option_word) \o ColonSpaceParen \o G(oc) \o Opt(")"),
    \* [Tt]he correct answer is:?\s+\(?([..])\)?
    Tt \o Lit(he_correct_answer_is) \o ColonSpaceParen \o G(oc) \o Opt(")"),
    \* [Tt]he correct answer is option:?\s+\(?([..])\)?
    Tt \o Lit(he_correct_answer_is) \o Lit(option_word) \o ColonSpaceParen \o G(oc) \o Opt(")"),
    \* [Tt]he correct answer is:?.*?boxed{([..])}
    Tt \o Lit(he_correct_answer_is) \o Opt(":") \o Dot("*?") \o Lit(boxed) \o G(oc) \o Chr("}"),
    \* [Tt]he correct option is:?.*?boxed{([..])}
    Tt \o Lit(he_correct_option_is) \o Opt(":") \o Dot("*?") \o Lit(boxed) \o G(oc) \o Chr("}"),
    \* [Tt]he correct answer option is:?.*?boxed{([..])}
    Tt \o Lit(he_correct_answer_option_is) \o Opt(":") \o Dot("*?") \o Lit(boxed) \o G(oc)
        \o Chr("}"),
    \* [Tt]he answer to the question is:?\s+\(?([..])\)?
    Tt \o Lit(he_answer_to_the_question_is) \o ColonSpaceParen \o G(oc) \o Opt(")"),
    \* ^选项\s?([..])
    Bol \o Lit(<<zh_xuan, zh_xiang>>) \o Space("?") \o G(oc),
    \* ^([..])\s?选?项
    Bol \o G(oc) \o Space("?") \o Opt(zh_xuan) \o Chr(zh_xiang),
    \* (\s|^)[..][\s。，,：:\.$]
    Group1(Alt(<<[t |-> "set", cs |-> Whitespace, neg |-> FALSE], [t |-> "bol"]>>))
        \o OptionClass(oc)
        \o Set(Whitespace \cup {zh_stop, zh_comma, ",", zh_colon, ":", ".", "$"}, "1"),
    \* 1.\s?(.*?)$
    Chr("1") \o Dot("1") \o Space("?") \o Group1(Dot("*?")) \o Eol,
    \* 1.\s?([..])[.。$]?$
    Chr("1") \o Dot("1") \o Space("?") \o G(oc) \o Set({".", zh_stop, "$"}, "?") \o Eol
>>

-----------------------------------------------------------------------------
(* The operations of ResponseParser; each returns a string or raises *)

Return(v) == [kind |-> "return", val |-> v]
Raise(e) == [kind |-> "raise", exc |-> e]

\* the candidate substring of a match: group 1 if it is not None and not '',
\* else the whole match
Outputs(m, txt) ==
    IF m.g[1] # 0 /\ m.g[2] # 0 /\ group1(m, txt) # <<>>
    THEN group1(m, txt)
    ELSE group0(m, txt)

\* for i in options_concat: if i in outputs: return i
\* (the position in options_concat of the character returned, 0 when none is)
FirstIn(oc, outputs) ==
    IF \E k \in 1..Len(oc) : oc[k] \in Range(outputs)
    THEN CHOOSE k \in 1..Len(oc) :
            /\ oc[k] \in Range(outputs)
            /\ \A j \in 1..(k - 1) : oc[j] \notin Range(outputs)
    ELSE 0

\* one turn of the loop over patterns, for pattern pat: what it returns, or
\* "next" when the loop goes on
Rule(pat, oc, txt) ==
    IF Invalid(pat) THEN Raise("re.error")
    ELSE LET m == Search(pat, txt) IN
         IF ~m.ok THEN [kind |-> "next"]
         ELSE LET hit == FirstIn(oc, Outputs(m, txt)) IN
              IF hit # 0 THEN Return(<<oc[hit]>>) ELSE [kind |-> "next"]

NoValidOption == <<"N", "o", " ", "v", "a", "l", "i", "d", " ", "o", "p", "t", "i", "o", "n", " ", "f", "o", "u", "n", "d">>

\* Cascade with the sentinel of parse_bracketed_answer as its last return
RECURSIVE Cascade_sentinel(_, _, _, _)
Cascade_sentinel(pats, oc, txt, k) ==
    IF k > Len(pats) THEN Return(NoValidOption)
    ELSE LET r == Rule(pats[k], oc, strip(txt)) IN
         IF r.kind = "next" THEN Cascade_sentinel(pats, oc, strip(txt), k + 1) ELSE r

\* the loop over patterns from pattern k on; text was stripped in the first turn
RECURSIVE Cascade(_, _, _, _)
Cascade(pats, oc, txt, k) ==
    IF k > Len(pats) THEN Return(<<>>)
    ELSE LET r == Rule(pats[k], oc, strip(txt)) IN
         IF r.kind = "next" THEN Cascade(pats, oc, strip(txt), k + 1) ELSE r

parse_first_option(txt, opts) ==
    LET options_concat == process_options(opts)
    IN  Cascade(patterns(options_concat), options_concat, txt, 1)

RECURSIVE parse_first_capital(_, _)
parse_first_capital(txt, opts) ==
    IF txt = <<>> THEN Return(<<>>)
    ELSE IF isupper(Head(txt)) /\ <<Head(txt)>> \in Range(opts)
         THEN Return(<<Head(txt)>>)
         ELSE parse_first_capital(Tail(txt), opts)

\* parse_last_capital scanning text instead of text[::-1]
parse_last_capital_forward(txt, opts) == parse_first_capital(txt, opts)

RECURSIVE parse_last_capital(_, _)
parse_last_capital(txt, opts) ==
    IF txt = <<>> THEN Return(<<>>)
    ELSE IF isupper(txt[Len(txt)]) /\ <<txt[Len(txt)]>> \in Range(opts)
         THEN Return(<<txt[Len(txt)]>>)
         ELSE parse_last_capital(SubSeq(txt, 1, Len(txt) - 1), opts)

\* the match at the rightmost start
RECURSIVE SearchLastFrom(_, _, _)
SearchLastFrom(re, txt, s) ==
    IF s < 1 THEN NoMatch
    ELSE LET r == Match(re, txt, 1, s, 0, <<0, 0>>)
         IN  IF r.ok THEN [ok |-> TRUE, s |-> s, e |-> r.e, g |-> r.g]
             ELSE SearchLastFrom(re, txt, s - 1)

\* parse_bracketed_answer returning the last bracketed option
parse_bracketed_answer_last(txt, opts) ==
    LET re == Chr("<") \o Group1(OptionAlt(process_options(opts))) \o Chr(">")
        m == SearchLastFrom(re, txt, Len(txt) + 1)
    IN  IF m.ok THEN Return(group1(m, txt)) ELSE Return(NoValidOption)

\* parse_bracketed_answer testing `match and match.group(1)`
parse_bracketed_answer_truthy(txt, opts) ==
    LET m == Search(Chr("<") \o Group1(OptionAlt(process_options(opts))) \o Chr(">"), txt)
    IN  IF m.ok /\ group1(m, txt) # <<>>
        THEN Return(group1(m, txt)) ELSE Return(NoValidOption)

parse_bracketed_answer(txt, opts) ==
    LET m == Search(Chr("<") \o Group1(OptionAlt(process_options(opts))) \o Chr(">"), txt)
    IN  IF m.ok THEN Return(group1(m, txt)) ELSE Return(NoValidOption)

-----------------------------------------------------------------------------
(* Inputs *)

\* the longest text of Spec, in tokens, and of SpecFirstOption, in phrases
MaxTokens == 3
MaxPhrases == 3

\* the texts made of at most n of the pieces
RECURSIVE TextsOf(_, _)
TextsOf(pieces, n) ==
    IF n = 0 THEN {<<>>}
    ELSE LET shorter == TextsOf(pieces, n - 1)
         IN  shorter \cup {t \o p : t \in shorter, p \in pieces}

\* characters and bracketed labels
Tokens ==
    {<<"A">>, <<"B">>, <<" ">>, <<"<">>, <<">">>, <<"(">>,
     <<"<", "A", ">">>, <<"<", "B", ">">>}

\* answer phrases of the rule table, labels, separators
The_answer_is == <<"T">> \o he_answer_is \o <<" ">>
Phrases ==
    {The_answer_is, <<zh_da, zh_an, zh_shi>>, <<"1", ".">>,
     <<"a", "n", "s", "w", "e", "r", ":">>,
     <<"A">>, <<"B">>, <<"a">>, <<"|">>, <<" ">>, <<".">>, <<"\\">>, <<"(">>}

\* option lists: single capitals in both orders, a label of two characters, a
\* label that is a regex metacharacter, and the empty list
OptionSets ==
    {<<>>,
     << <<"A">>, <<"B">> >>,
     << <<"B">>, <<"A">> >>,
     << <<"A", "B">>, <<"B">> >>,
     << <<"(">>, <<"A">> >>}

-----------------------------------------------------------------------------
(* The state machine: one call of one operation on (text, options) *)

NotCalled == [kind |-> "none"]

TypeOK ==
    /\ op \in {"none", "parse_first_option", "parse_first_capital",
               "parse_last_capital", "parse_bracketed_answer", "process_options"}
    /\ options \in OptionSets
    /\ result.kind \in {"none", "return", "raise"}

Init ==
    /\ text \in TextsOf(Tokens, MaxTokens)
    /\ options \in OptionSets
    /\ op = "none"
    /\ result = NotCalled

InitFirstOption ==
    /\ text \in TextsOf(Phrases, MaxPhrases)
    /\ options \in OptionSets
    /\ op = "none"
    /\ result = NotCalled

ParseFirstOption ==
    /\ op = "none"
    /\ op' = "parse_first_option"
    /\ result' = parse_first_option(text, options)
    /\ UNCHANGED <<text, options>>

ParseFirstCapital ==
    /\ op = "none"
    /\ op' = "parse_first_capital"
    /\ result' = parse_first_capital(text, options)
    /\ UNCHANGED <<text, options>>

ParseLastCapital ==
    /\ op = "none"
    /\ op' = "parse_last_capital"
    /\ result' = parse_last_capital(text, options)
    /\ UNCHANGED <<text, options>>

ParseBracketedAnswer ==
    /\ op = "none"
    /\ op' = "parse_bracketed_answer"
    /\ result' = parse_bracketed_answer(text, options)
    /\ UNCHANGED <<text, options>>

ProcessOptions ==
    /\ op = "none"
    /\ op' = "process_options"
    /\ result' = Return(process_options(options))
    /\ UNCHANGED <<text, options>>

Next ==
    \/ ParseFirstOption
    \/ ParseFirstCapital
    \/ ParseLastCapital
    \/ ParseBracketedAnswer
    \/ ProcessOptions

Spec == Init /\ [][Next]_vars

\* the rule cascade alone, on texts made of answer phrases
NextFirstOption == ParseFirstOption

SpecFirstOption == InitFirstOption /\ [][NextFirstOption]_vars

-----------------------------------------------------------------------------
(* What the properties speak of *)

AllWhitespace(s) == \A k \in 1..Len(s) : s[k] \in Whitespace

\* the candidate c holds a label of options as a literal substring
HasLabel(c) == \E j \in 1..Len(options) : Contains(c, options[j])

\* the first label, in the declared order of options, that c holds
FirstLabelIn(c) ==
    options[CHOOSE j \in 1..Len(options) :
                /\ Contains(c, options[j])
                /\ \A i \in 1..(j - 1) : ~Contains(c, options[i])]

\* the labels of options that c holds
LabelsIn(c) == {j \in 1..Len(options) : Contains(c, options[j])}

\* the rules of the cascade on this state's text and options
Rules == patterns(process_options(options))
RuleMatch(k) == Search(Rules[k], strip(text))
RuleCandidate(k) == Outputs(RuleMatch(k), strip(text))

\* the rules that match with a candidate holding a label
Yielding == {k \in 1..Len(Rules) : RuleMatch(k).ok /\ HasLabel(RuleCandidate(k))}

\* the rules at which the loop of parse_first_option returns
Returning ==
    {k \in 1..Len(Rules) : Rule(Rules[k], process_options(options), strip(text)).kind = "return"}

Lowest(S) == CHOOSE k \in S : \A j \in S : k <= j

\* the positions where "<" X ">" stands in text, X a label of options
Bracketed ==
    {p \in 1..Len(text) :
        \E j \in 1..Len(options) :
            LET occ == <<"<">> \o options[j] \o <<">">>
            IN  /\ p + Len(occ) - 1 <= Len(text)
                /\ SubSeq(text, p, p + Len(occ) - 1) = occ}

\* the positions of text holding an upper-case character that is in options
Capitals ==
    {p \in 1..Len(text) : isupper(text[p]) /\ <<text[p]>> \in Range(options)}

-----------------------------------------------------------------------------
(* Properties *)

\* C1: for a non-empty option list parse_first_option returns the empty string
\* or an element of the option list, never another string (the separator that
\* joins the labels, a fragment of a label).
C1_ReturnsLabelOrEmpty ==
    (op = "parse_first_option" /\ options # <<>>) =>
        /\ result.kind = "return"
        /\ result.val = <<>> \/ result.val \in Range(options)

\* C2, as claimed: with an empty option list each of the five operations fails
\* with InvalidInputError for every text.
C2_EmptyOptionsRaiseInvalidInput ==
    (op # "none" /\ options = <<>>) => result = Raise("InvalidInputError")

\* C2, amended: with an empty option list process_options returns the empty
\* string, parse_first_capital and parse_last_capital return the empty string,
\* parse_bracketed_answer returns the empty string when the text holds "<>" and
\* the sentinel otherwise, and parse_first_option raises re.error; none raises
\* InvalidInputError.
C2_EmptyOptionsBehaviour ==
    (op # "none" /\ options = <<>>) =>
        /\ op \in {"process_options", "parse_first_capital", "parse_last_capital"}
              => result = Return(<<>>)
        /\ op = "parse_bracketed_answer"
              => result = IF Contains(text, <<"<", ">">>)
                          THEN Return(<<>>) ELSE Return(NoValidOption)
        /\ op = "parse_first_option" => result = Raise("re.error")

C2_Witness ==
    /\ options = <<>>
    /\ op = "parse_bracketed_answer"
    /\ Contains(text, <<"<", ">">>)
    /\ result = Return(<<>>)

\* C3: for every label L of a non-empty option list, parse_first_option of
\* "The answer is " followed by L returns exactly L.
C3_TheAnswerIsLabel ==
    \A j \in 1..Len(options) :
        (op = "parse_first_option" /\ text = The_answer_is \o options[j])
            => result = Return(options[j])

\* C4: the result of parse_first_option is the label of the lowest-positioned
\* rule that matches with a candidate holding a label: a label of the option
\* list, found in that rule's candidate, whatever later rules would yield.
C4_LowestRuleDecides ==
    (op = "parse_first_option" /\ options # <<>> /\ Yielding # {}) =>
        /\ result.kind = "return"
        /\ result.val \in Range(options)
        /\ Contains(RuleCandidate(Lowest(Yielding)), result.val)

\* C5: parse_last_capital returns the rightmost character of the text that is
\* upper-case and in the option list, and the empty string exactly when the
\* text has no such character.
C5_LastCapital ==
    (op = "parse_last_capital" /\ options # <<>>) =>
        result = IF Capitals = {}
                 THEN Return(<<>>)
                 ELSE Return(<<text[CHOOSE p \in Capitals : \A q \in Capitals : q <= p]>>)

C5_Witness ==
    /\ op = "parse_last_capital"
    /\ \E p, q \in Capitals :
          /\ p < q
          /\ text[p] # text[q]
          /\ \A r \in Capitals : r <= q
          /\ result = Return(<<text[q]>>)

\* C6: parse_bracketed_answer returns the label of the leftmost "<X>" of the
\* text with X in the option list, and the sentinel exactly when the text has
\* none; it never returns the empty string nor any string that is neither a
\* label nor the sentinel.
C6_BracketedAnswer ==
    (op = "parse_bracketed_answer" /\ options # <<>>) =>
        /\ result.kind = "return"
        /\ result.val # <<>>
        /\ result.val \in Range(options) \cup {NoValidOption}
        /\ (result.val = NoValidOption) <=> (Bracketed = {})
        /\ Bracketed # {} =>
              LET p == Lowest(Bracketed)
                  occ == <<"<">> \o result.val \o <<">">>
              IN  /\ p + Len(occ) - 1 <= Len(text)
                  /\ SubSeq(text, p, p + Len(occ) - 1) = occ

C6_Witness ==
    /\ op = "parse_bracketed_answer"
    /\ \E p, q \in Bracketed :
          /\ p < q
          /\ SubSeq(text, p, p + 2) # SubSeq(text, q, q + 2)
          /\ p = Lowest(Bracketed)
          /\ result = Return(<<text[p + 1]>>)

\* C7: on a text that is empty or all whitespace, with a non-empty option
\* list, no operation raises: parse_first_option, parse_last_capital and
\* parse_first_capital return the empty string and parse_bracketed_answer
\* returns the sentinel.
C7_BlankText ==
    (op # "none" /\ options # <<>> /\ AllWhitespace(text)) =>
        /\ result.kind = "return"
        /\ op \in {"parse_first_option", "parse_last_capital", "parse_first_capital"}
              => result.val = <<>>
        /\ op = "parse_bracketed_answer" => result.val = NoValidOption

C7_Witness ==
    /\ op = "parse_first_option"
    /\ options # <<>>
    /\ text # <<>>
    /\ AllWhitespace(text)
    /\ result = Return(<<>>)

\* C8: when the candidate at which parse_first_option returns holds several
\* labels, the label returned is the first of them in the declared order of
\* the option list.
C8_DeclaredOrder ==
    (op = "parse_first_option" /\ options # <<>> /\ Returning # {}) =>
        LET c == RuleCandidate(Lowest(Returning))
        IN  Cardinality(LabelsIn(c)) >= 2 => result = Return(FirstLabelIn(c))

\* C9: a rule that matches with a candidate holding no label does not end the
\* scan; the empty string is returned only when no rule matches with a
\* candidate holding a label, and when some rule does, a label is returned.
C9_FallThrough ==
    (op = "parse_first_option" /\ options # <<>>) =>
        /\ result.kind = "return"
        /\ Returning # {} => HasLabel(RuleCandidate(Lowest(Returning)))
        /\ result.val = <<>> => Yielding = {}
        /\ Yielding # {} => result.val \in Range(options)

\* C10: on a text that is exactly one label, a single capital letter of the
\* option list (a label at the start of the text and followed by its end),
\* parse_first_option returns that label.
C10_SingleLabelText ==
    (/\ op = "parse_first_option"
     /\ Len(text) = 1
     /\ isupper(text[1])
     /\ text \in Range(options)) => result = Return(text)

====
